---- MODULE Spec2Model ----
(***************************************************************************)
(* homer: linking a source tree of dotfiles into a destination directory.  *)
(* The model holds a filesystem (files, directories, symbolic links with   *)
(* absolute or relative targets), the plan built by Plan::new and the      *)
(* position of one run of run_linking.                                     *)
(***************************************************************************)
EXTENDS Naturals, Sequences, FiniteSets, TLC

VARIABLES fs, fsBuilt, pc, input, backup, force, answer, plan, out, queue, phase, result, runs

vars == <<fs, fsBuilt, pc, input, backup, force, answer, plan, out, queue, phase, result, runs>>

(***************************************************************************)
(* Bounds of the model.                                                    *)
(***************************************************************************)
MaxSrcEntries == 2
MaxDstEntries == 2
MaxRuns == 2
MaxHops == 3

(***************************************************************************)
(* File names are sequences of dot-separated segments: "a" is <<"a">>,     *)
(* "a.txt" is <<"a", "txt">>.  A path is a sequence of names from "/".     *)
(***************************************************************************)
NA == <<"a">>
NTxt == <<"a", "txt">>
NBkp == <<"a", "bkp">>
DotDot == <<"..">>
SRC == <<"src">>
DST == <<"dst">>
SrcRoot == <<SRC>>
DstRoot == <<DST>>
SrcNames == {NA, NTxt}
DstNames == {NA, NTxt, NBkp}
AllNames == SrcNames \cup DstNames

Parent(p) == IF p = <<>> THEN <<>> ELSE SubSeq(p, 1, Len(p) - 1)
Last(p) == p[Len(p)]
IsPrefix(a, b) == Len(a) <= Len(b) /\ SubSeq(b, 1, Len(a)) = a
Rest(a, b) == SubSeq(b, Len(a) + 1, Len(b))

(***************************************************************************)
(* Entries of the filesystem.  id names the content: the place where the   *)
(* entry was made, and the run that made it (0: before the first run).     *)
(***************************************************************************)
Made(p, run) == [at |-> p, run |-> run]
File(id) == [kind |-> "file", id |-> id, abs |-> FALSE, comps |-> <<>>]
Dir(id) == [kind |-> "dir", id |-> id, abs |-> FALSE, comps |-> <<>>]
SymLink(id, abs, comps) == [kind |-> "link", id |-> id, abs |-> abs, comps |-> comps]

NoPath == [ok |-> FALSE, path |-> <<>>]

(***************************************************************************)
(* Path resolution of the operating system: cur is the directory reached   *)
(* so far (symlink free), rest the components left.  A symbolic link in    *)
(* the middle is always followed; the last one only when follow is set.    *)
(***************************************************************************)
RECURSIVE Walk(_, _, _, _, _)
Walk(f, cur, rest, follow, fuel) ==
    IF rest = <<>> THEN [ok |-> TRUE, path |-> cur]
    ELSE LET c == Head(rest)
             t == Tail(rest)
             nxt == Append(cur, c)
         IN  IF c = DotDot THEN Walk(f, Parent(cur), t, follow, fuel)
             ELSE IF nxt \notin DOMAIN f THEN NoPath
             ELSE IF f[nxt].kind = "link" /\ (t # <<>> \/ follow)
                  THEN IF fuel = 0 THEN NoPath
                       ELSE Walk(f, IF f[nxt].abs THEN <<>> ELSE cur,
                                 f[nxt].comps \o t, follow, fuel - 1)
             ELSE IF t # <<>> /\ f[nxt].kind # "dir" THEN NoPath
             ELSE Walk(f, nxt, t, follow, fuel)

Stat(f, p) == Walk(f, <<>>, p, TRUE, MaxHops)
LStat(f, p) == Walk(f, <<>>, p, FALSE, MaxHops)

KindAt(f, q) == IF q = <<>> THEN "dir" ELSE f[q].kind

\* Path::exists, Path::is_dir: both follow symbolic links.
Exists(f, p) == Stat(f, p).ok
IsDir(f, p) == LET r == Stat(f, p) IN r.ok /\ KindAt(f, r.path) = "dir"

\* fs::read_link: fails unless the last component is a symbolic link.
ReadLink(f, p) ==
    LET r == LStat(f, p)
    IN  IF r.ok /\ KindAt(f, r.path) = "link"
        THEN [ok |-> TRUE, abs |-> f[r.path].abs, comps |-> f[r.path].comps]
        ELSE [ok |-> FALSE, abs |-> FALSE, comps |-> <<>>]

\* fs::canonicalize, Path::canonicalize.
Canonicalize(f, p) == Stat(f, p)

ChildrenOf(f, d) == {q \in DOMAIN f : Len(q) = Len(d) + 1 /\ IsPrefix(d, q)}
Under(f, d) == {q \in DOMAIN f : IsPrefix(d, q)}

\* fs::read_dir: the names in the directory p resolves to.
ReadDir(f, p) == {Last(q) : q \in ChildrenOf(f, Stat(f, p).path)}

\* The place a new name p would take: its parent resolved, its last name kept.
Place(f, p) ==
    LET r == Stat(f, Parent(p))
    IN  IF r.ok /\ KindAt(f, r.path) = "dir"
        THEN [ok |-> TRUE, path |-> Append(r.path, Last(p))]
        ELSE NoPath

Failed(f) == [ok |-> FALSE, fs |-> f]
Done(f) == [ok |-> TRUE, fs |-> f]

Without(f, gone) == [q \in DOMAIN f \ gone |-> f[q]]

\* fs::rename (rename(2)): replaces a non-directory or an empty directory.
Rename(f, from, to) ==
    LET a == LStat(f, from)
        b == Place(f, to)
    IN  IF ~a.ok \/ ~b.ok \/ a.path = <<>> THEN Failed(f)
        ELSE IF a.path = b.path THEN Done(f)
        ELSE IF IsPrefix(a.path, b.path) THEN Failed(f)
        ELSE IF b.path \in DOMAIN f
                /\ (IF f[a.path].kind = "dir"
                    THEN f[b.path].kind # "dir" \/ ChildrenOf(f, b.path) # {}
                    ELSE f[b.path].kind = "dir")
             THEN Failed(f)
        ELSE LET moved == Under(f, a.path)
                 kept == (DOMAIN f \ moved) \ {b.path}
                 dom == kept \cup {b.path \o Rest(a.path, q) : q \in moved}
             IN  Done([q \in dom |->
                        IF IsPrefix(b.path, q)
                        THEN f[a.path \o Rest(b.path, q)]
                        ELSE f[q]])

\* fs::remove_file (unlink(2)): never follows the last link, refuses a directory.
RemoveFile(f, p) ==
    LET a == LStat(f, p)
    IN  IF ~a.ok \/ KindAt(f, a.path) = "dir" THEN Failed(f)
        ELSE Done(Without(f, {a.path}))

\* fs::remove_dir_all: a symbolic link is removed itself, a directory with
\* everything under it.
RemoveDirAll(f, p) ==
    LET a == LStat(f, p)
    IN  IF ~a.ok \/ a.path = <<>> \/ f[a.path].kind = "file" THEN Failed(f)
        ELSE IF f[a.path].kind = "link" THEN Done(Without(f, {a.path}))
        ELSE Done(Without(f, Under(f, a.path)))

\* unix::fs::symlink (symlink(2)): fails when the name is taken, even by a
\* dangling link.
MakeSymlink(f, target, linkpath, run) ==
    LET b == Place(f, linkpath)
    IN  IF ~b.ok \/ b.path \in DOMAIN f THEN Failed(f)
        ELSE Done([q \in DOMAIN f \cup {b.path} |->
                    IF q = b.path THEN SymLink(Made(b.path, run), TRUE, target)
                    ELSE f[q]])

\* Path::with_extension("bkp") on the last name: a name with no dot, or a
\* dot file with no other dot, gets the extension appended; otherwise the
\* text after the last dot is replaced.
NameWithBkp(n) ==
    IF Len(n) = 1 \/ (Len(n) = 2 /\ n[1] = "")
    THEN Append(n, "bkp")
    ELSE [n EXCEPT ![Len(n)] = "bkp"]

WithExtension(p) == Append(Parent(p), NameWithBkp(Last(p)))

(***************************************************************************)
(* Plans.                                                                  *)
(***************************************************************************)
Noop(path, dest, children) ==
    [type |-> "Noop", path |-> path, dest |-> dest, children |-> children]
Link(path, dest, replace, bk) ==
    [type |-> "Link", path |-> path, dest |-> dest, replace |-> replace, backup |-> bk]
BuildError == [type |-> "Err"]

\* The orders in which read_dir may list the entries: the code does not sort.
\* ord is a sequence without repetition of the names found under /src.
SourceNames(f) == {Last(q) : q \in {x \in DOMAIN f : Len(x) >= 2 /\ Head(x) = SRC}}

Orders(f) == LET names == SourceNames(f)
             IN  {o \in [1..Cardinality(names) -> names] :
                     \A i, j \in DOMAIN o : o[i] = o[j] => i = j}

Listing(f, ord, p) == LET names == ReadDir(f, p)
                          Listed(n) == n \in names
                      IN  SelectSeq(ord, Listed)

\* As DestExistsOrIsLink, without the read_link test: a dangling link is missed.
DestExistsOnly(f, dest) == Exists(f, dest)

\* dest.exists() || read_link(dest).is_ok()
DestExistsOrIsLink(f, dest) == Exists(f, dest) \/ ReadLink(f, dest).ok

\* As CanonicalizedDest, without the branch for a relative target: only an
\* absolute target is resolved.
CanonicalizedDestAbsOnly(f, dest) ==
    LET l == ReadLink(f, dest)
    IN  IF ~l.ok \/ ~l.abs THEN NoPath ELSE Canonicalize(f, l.comps)

\* The target of the link at dest, canonicalized: an absolute target as is,
\* a relative one pushed on dest's parent.
CanonicalizedDest(f, dest) ==
    LET l == ReadLink(f, dest)
    IN  IF ~l.ok THEN NoPath
        ELSE IF l.abs THEN Canonicalize(f, l.comps)
        ELSE Canonicalize(f, Parent(dest) \o l.comps)

\* Plan::new on a path that is not a directory.
PlanFile(f, path, dest, bk) ==
    LET cd == CanonicalizedDest(f, dest)
        cp == Canonicalize(f, path)
    IN  IF ~cp.ok THEN BuildError
        ELSE IF cd.ok /\ cd.path = cp.path THEN Noop(path, dest, <<>>)
        ELSE Link(path, dest, DestExistsOrIsLink(f, dest), bk)

\* As PlanDir, with dest.exists() in the place of dest.is_dir().
PlanDirAnyOccupant(f, path, dest, bk, children) ==
    IF Exists(f, dest) THEN Noop(path, dest, children)
    ELSE Link(path, dest, DestExistsOrIsLink(f, dest), bk)

\* The node Plan::new returns for a directory once its children are planned.
PlanDir(f, path, dest, bk, children) ==
    IF IsDir(f, dest) THEN Noop(path, dest, children)
    ELSE Link(path, dest, DestExistsOrIsLink(f, dest), bk)

\* Plan::new.  unreadable: the directories read_dir fails on.
RECURSIVE PlanNew(_, _, _, _, _, _)
PlanNew(f, unreadable, ord, path, dest, bk) ==
    IF ~Exists(f, path) THEN BuildError
    ELSE IF IsDir(f, path)
    THEN IF path \in unreadable THEN BuildError
         ELSE LET entries == Listing(f, ord, path)
                  children == [i \in 1..Len(entries) |->
                                 PlanNew(f, unreadable, ord, Append(path, entries[i]),
                                         Append(dest, entries[i]), bk)]
              IN  IF \E i \in 1..Len(entries) : children[i].type = "Err"
                  THEN BuildError
                  ELSE PlanDir(f, path, dest, bk, children)
    ELSE PlanFile(f, path, dest, bk)

\* As IsEmpty, without the look at the children.
IsEmptyShallow(p) == p.type = "Noop"

\* Plan::is_empty.
RECURSIVE IsEmpty(_)
IsEmpty(p) ==
    IF p.type = "Noop"
    THEN \A i \in 1..Len(p.children) : IsEmpty(p.children[i])
    ELSE FALSE

\* The Link nodes in the order Plan::execute reaches them.
RECURSIVE Links(_)
RECURSIVE LinksOfAll(_)
LinksOfAll(ps) == IF ps = <<>> THEN <<>> ELSE Links(Head(ps)) \o LinksOfAll(Tail(ps))
Links(p) == IF p.type = "Link" THEN <<p>> ELSE LinksOfAll(p.children)

\* The lines Plan::show prints for one Link node.
ShowLink(f, p) ==
    (IF p.replace /\ p.backup
     THEN <<[op |-> "mv", at |-> p.dest, to |-> WithExtension(p.dest), dir |-> FALSE]>>
     ELSE IF p.replace
     THEN <<[op |-> "rm", at |-> p.dest, to |-> <<>>, dir |-> IsDir(f, p.dest)]>>
     ELSE <<>>)
    \o <<[op |-> "ln", at |-> p.dest, to |-> p.path, dir |-> FALSE]>>

\* Plan::show.
RECURSIVE Show(_, _)
RECURSIVE ShowAll(_, _)
ShowAll(f, ps) == IF ps = <<>> THEN <<>> ELSE Show(f, Head(ps)) \o ShowAll(f, Tail(ps))
Show(f, p) == IF p.type = "Link" THEN ShowLink(f, p) ELSE ShowAll(f, p.children)

\* canonicalize_dir.
CanonicalizeDir(f, p) ==
    LET r == Canonicalize(f, p)
    IN  IF r.ok /\ KindAt(f, r.path) = "dir" THEN r ELSE NoPath

(***************************************************************************)
(* The filesystems the model starts from: a source tree of files and       *)
(* directories under /src, and under /dst files, directories and symbolic  *)
(* links (to a source entry by absolute or relative target, to another     *)
(* source entry, or dangling).                                             *)
(***************************************************************************)
RelsOf(names) == {<<n>> : n \in names} \cup {<<n, m>> : n, m \in names}

Closed(S) == \A r \in S : Len(r) = 2 => <<r[1]>> \in S

Shapes(names, max) == {S \in SUBSET RelsOf(names) : Cardinality(S) <= max /\ Closed(S)}

SrcKinds == {"file", "dir"}
DstKinds == {"file", "dir", "la", "lt", "same", "rel"}

Nested(S, k) == \A r \in S : Len(r) = 2 => k[<<r[1]>>] = "dir"

Dots(n) == [i \in 1..n |-> DotDot]

EntryOf(root, rel, kind) ==
    LET id == Made(root \o rel, 0)
    IN  CASE kind = "file" -> File(id)
          [] kind = "dir" -> Dir(id)
          [] kind = "la" -> SymLink(id, TRUE, Append(SrcRoot, NA))
          [] kind = "lt" -> SymLink(id, TRUE, Append(SrcRoot, NTxt))
          [] kind = "ld" -> SymLink(id, TRUE, DstRoot)
          [] kind = "same" -> SymLink(id, TRUE, SrcRoot \o rel)
          [] kind = "rel" -> SymLink(id, FALSE, Dots(Len(rel)) \o SrcRoot \o rel)

MkFs(S, sk, D, dk) ==
    LET dom == {SrcRoot, DstRoot} \cup {SrcRoot \o r : r \in S} \cup {DstRoot \o r : r \in D}
    IN  [q \in dom |->
           IF Len(q) = 1 THEN Dir(Made(q, 0))
           ELSE IF Head(q) = SRC THEN EntryOf(SrcRoot, Tail(q), sk[Tail(q)])
           ELSE EntryOf(DstRoot, Tail(q), dk[Tail(q)])]

NoPlan == [type |-> "None"]

\* The input directories a run may be given: the source root, or /src/a,
\* which may be missing, a file or a directory.
Inputs == {SrcRoot, Append(SrcRoot, NA)}

SourceDirs(f) == {q \in DOMAIN f : IsPrefix(SrcRoot, q) /\ f[q].kind = "dir"}

Init ==
    /\ \E S \in Shapes(SrcNames, MaxSrcEntries), D \in Shapes(DstNames, MaxDstEntries) :
         \E sk \in [S -> SrcKinds], dk \in [D -> DstKinds] :
            /\ Nested(S, sk)
            /\ Nested(D, dk)
            /\ fs = MkFs(S, sk, D, dk)
    /\ fsBuilt = fs
    /\ pc = "idle"
    /\ input = SrcRoot
    /\ backup = FALSE
    /\ force = FALSE
    /\ answer = "none"
    /\ plan = NoPlan
    /\ out = <<>>
    /\ queue = <<>>
    /\ phase = "clear"
    /\ result = "none"
    /\ runs = 0

\* run_linking up to the return of Plan::new: both roots are canonicalized,
\* then the plan is built.
BuildPlan ==
    /\ pc = "idle"
    /\ runs < MaxRuns
    /\ \E inp \in Inputs, bk \in BOOLEAN :
         /\ input' = inp
         /\ backup' = bk
         /\ IF ~CanonicalizeDir(fs, inp).ok \/ ~CanonicalizeDir(fs, DstRoot).ok
            THEN pc' = "done" /\ result' = "input_error" /\ plan' = NoPlan
            ELSE \E ord \in Orders(fs), unreadable \in {{}} \cup {{d} : d \in SourceDirs(fs)} :
                   LET p == PlanNew(fs, unreadable, ord, CanonicalizeDir(fs, inp).path,
                                    CanonicalizeDir(fs, DstRoot).path, bk)
                   IN  IF p.type = "Err"
                       THEN pc' = "done" /\ result' = "build_error" /\ plan' = NoPlan
                       ELSE pc' = "built" /\ result' = "none" /\ plan' = p
    /\ runs' = runs + 1
    /\ fsBuilt' = fs
    /\ UNCHANGED <<fs, force, answer, out, queue, phase>>

\* if plan.is_empty() { return Ok(()) }
CheckEmpty ==
    /\ pc = "built"
    /\ IF IsEmpty(plan)
       THEN pc' = "done" /\ result' = "empty"
       ELSE pc' = "nonempty" /\ UNCHANGED result
    /\ UNCHANGED <<fs, fsBuilt, input, backup, force, answer, plan, out, queue, phase, runs>>

\* plan.show()
ShowPlan ==
    /\ pc = "nonempty"
    /\ out' = Show(fs, plan)
    /\ pc' = "shown"
    /\ UNCHANGED <<fs, fsBuilt, input, backup, force, answer, plan, queue, phase, result, runs>>

\* As Prompt, with the answer read and not used.
PromptIgnoresAnswer ==
    /\ pc = "shown"
    /\ \E fc \in BOOLEAN, yes \in BOOLEAN :
         /\ force' = fc
         /\ answer' = IF fc THEN "none" ELSE IF yes THEN "yes" ELSE "no"
    /\ pc' = "execute"
    /\ queue' = Links(plan)
    /\ UNCHANGED <<fs, fsBuilt, input, backup, plan, out, phase, result, runs>>

\* if !force { if !prompt_user()? { return Ok(()) } }, then the call of execute.
\* force is an argument of the run that is read here and nowhere else: the
\* model draws it where it is read.
Prompt ==
    /\ pc = "shown"
    /\ \E fc \in BOOLEAN, yes \in BOOLEAN :
         /\ force' = fc
         /\ answer' = IF fc THEN "none" ELSE IF yes THEN "yes" ELSE "no"
         /\ IF fc \/ yes
            THEN pc' = "execute" /\ queue' = Links(plan) /\ UNCHANGED result
            ELSE pc' = "done" /\ result' = "rejected" /\ UNCHANGED queue
    /\ UNCHANGED <<fs, fsBuilt, input, backup, plan, out, phase, runs>>

\* The first half of Plan::execute on a Link: the occupant is renamed to its
\* backup name or removed.
ClearOccupant(f, node) ==
    IF node.replace /\ node.backup THEN Rename(f, node.dest, WithExtension(node.dest))
    ELSE IF node.replace
    THEN IF IsDir(f, node.dest) THEN RemoveDirAll(f, node.dest)
         ELSE RemoveFile(f, node.dest)
    ELSE Done(f)

\* Plan::execute on a Link, first call: fs::rename, fs::remove_dir_all or
\* fs::remove_file.  A failure goes up through every ? and try_for_each:
\* execute returns the error, nothing is undone.
ExecClear ==
    /\ pc = "execute"
    /\ queue # <<>>
    /\ phase = "clear"
    /\ Head(queue).replace
    /\ \E ioerr \in BOOLEAN :
         LET r == IF ioerr THEN Failed(fs) ELSE ClearOccupant(fs, Head(queue))
         IN  IF r.ok
             THEN fs' = r.fs /\ phase' = "link" /\ UNCHANGED <<pc, result>>
             ELSE pc' = "done" /\ result' = "exec_error" /\ UNCHANGED <<fs, phase>>
    /\ UNCHANGED <<fsBuilt, input, backup, force, answer, plan, out, queue, runs>>

\* As ExecLink, with a rollback when symlink fails: the filesystem is put
\* back as it was when the plan was built.
ExecLinkRollsBack ==
    /\ pc = "execute"
    /\ queue # <<>>
    /\ phase = "link" \/ ~Head(queue).replace
    /\ \E ioerr \in BOOLEAN :
         LET r == IF ioerr THEN Failed(fs)
                  ELSE MakeSymlink(fs, Head(queue).path, Head(queue).dest, runs)
         IN  IF r.ok
             THEN fs' = r.fs /\ queue' = Tail(queue) /\ phase' = "clear"
                  /\ UNCHANGED <<pc, result>>
             ELSE pc' = "done" /\ result' = "exec_error" /\ fs' = fsBuilt
                  /\ UNCHANGED <<queue, phase>>
    /\ UNCHANGED <<fsBuilt, input, backup, force, answer, plan, out, runs>>

\* Plan::execute on a Link, last call: unix::fs::symlink.
ExecLink ==
    /\ pc = "execute"
    /\ queue # <<>>
    /\ phase = "link" \/ ~Head(queue).replace
    /\ \E ioerr \in BOOLEAN :
         LET r == IF ioerr THEN Failed(fs)
                  ELSE MakeSymlink(fs, Head(queue).path, Head(queue).dest, runs)
         IN  IF r.ok
             THEN fs' = r.fs /\ queue' = Tail(queue) /\ phase' = "clear"
                  /\ UNCHANGED <<pc, result>>
             ELSE pc' = "done" /\ result' = "exec_error" /\ UNCHANGED <<fs, queue, phase>>
    /\ UNCHANGED <<fsBuilt, input, backup, force, answer, plan, out, runs>>

\* Plan::execute returns Ok once every node was applied.
ExecReturn ==
    /\ pc = "execute"
    /\ queue = <<>>
    /\ pc' = "done"
    /\ result' = "executed"
    /\ UNCHANGED <<fs, fsBuilt, input, backup, force, answer, plan, out, queue, phase, runs>>

\* main returns: the process ends and nothing but the filesystem is left.
Exit ==
    /\ pc = "done"
    /\ pc' = "idle"
    /\ input' = SrcRoot
    /\ backup' = FALSE
    /\ force' = FALSE
    /\ answer' = "none"
    /\ plan' = NoPlan
    /\ out' = <<>>
    /\ queue' = <<>>
    /\ phase' = "clear"
    /\ result' = "none"
    /\ fsBuilt' = fs
    /\ UNCHANGED <<fs, runs>>

Next ==
    \/ BuildPlan
    \/ CheckEmpty
    \/ ShowPlan
    \/ Prompt
    \/ ExecClear
    \/ ExecLink
    \/ ExecReturn
    \/ Exit

Spec == Init /\ [][Next]_vars

(***************************************************************************)
(* Destinations with an alias: a name under /dst may be a symbolic link    *)
(* back to /dst, so that two paths of the destination are one place.  The  *)
(* source tree may hold one entry more than under Init.                    *)
(***************************************************************************)
AliasKinds == {"file", "dir", "ld"}

InitAlias ==
    /\ \E S \in Shapes(SrcNames, MaxSrcEntries + 1),
          D \in {X \in Shapes(SrcNames, MaxDstEntries) : \A r \in X : Len(r) = 1} :
         \E sk \in [S -> SrcKinds], dk \in [D -> AliasKinds] :
            /\ Nested(S, sk)
            /\ fs = MkFs(S, sk, D, dk)
    /\ fsBuilt = fs
    /\ pc = "idle"
    /\ input = SrcRoot
    /\ backup = FALSE
    /\ force = FALSE
    /\ answer = "none"
    /\ plan = NoPlan
    /\ out = <<>>
    /\ queue = <<>>
    /\ phase = "clear"
    /\ result = "none"
    /\ runs = 0

SpecAlias == InitAlias /\ [][Next]_vars

(***************************************************************************)
(* Properties.                                                             *)
(***************************************************************************)
HasPlan == plan.type \in {"Noop", "Link"}

\* Every node of a plan, the plan itself included.
RECURSIVE Nodes(_)
Nodes(p) ==
    IF p.type = "Noop"
    THEN {p} \cup UNION {Nodes(p.children[i]) : i \in 1..Len(p.children)}
    ELSE {p}

LinkNodes(p) == {n \in Nodes(p) : n.type = "Link"}

\* Something occupies the name p: a file, a directory or a symbolic link,
\* dangling or not.
Occupied(f, p) == LStat(f, p).ok

DanglingAt(f, p) == ReadLink(f, p).ok /\ ~Exists(f, p)

\* C5: a Link node of a plan built by Plan::new has replace set if and only
\* if something occupied its dest when the plan was built, and carries the
\* backup argument of the build, at every depth.
C5_ReplaceIffOccupied ==
    HasPlan =>
        \A n \in LinkNodes(plan) :
            /\ n.replace <=> Occupied(fsBuilt, n.dest)
            /\ n.backup = backup

C5_Witness ==
    /\ HasPlan
    /\ \E n \in LinkNodes(plan) :
          n.replace /\ DanglingAt(fsBuilt, n.dest) /\ Len(n.dest) = 3 /\ n.backup

\* The name p is a live symbolic link that resolves to the place q resolves to.
LiveLinkTo(f, p, q) ==
    /\ ReadLink(f, p).ok
    /\ Stat(f, p).ok
    /\ Stat(f, q).ok
    /\ Stat(f, p).path = Stat(f, q).path

\* C6: for a source file Plan::new returns Noop exactly when dest is a live
\* symbolic link resolving to the canonicalized source; otherwise it returns
\* Link, with replace set whenever dest exists in any form.
C6_FileClassification ==
    HasPlan =>
        \A n \in Nodes(plan) :
            ~IsDir(fsBuilt, n.path) =>
                /\ n.type = "Noop" <=> LiveLinkTo(fsBuilt, n.dest, n.path)
                /\ n.type = "Noop" => n.children = <<>>
                /\ n.type = "Link" /\ Occupied(fsBuilt, n.dest) => n.replace

C6_Witness ==
    /\ HasPlan
    /\ \E n \in Nodes(plan) :
          /\ n.type = "Noop"
          /\ ~IsDir(fsBuilt, n.path)
          /\ ~ReadLink(fsBuilt, n.dest).abs
    /\ \E n \in Nodes(plan) :
          /\ n.type = "Link"
          /\ ~IsDir(fsBuilt, n.path)
          /\ ReadLink(fsBuilt, n.dest).ok
          /\ Exists(fsBuilt, n.dest)

\* C7: for a source directory Plan::new returns Noop with one child per
\* entry of the directory, each rooted at dest joined with the entry's name,
\* when dest is a directory; otherwise one Link node that stands for the
\* whole directory: execute and show treat it as a single node.
C7_DirClassification ==
    HasPlan =>
        \A n \in Nodes(plan) :
            IsDir(fsBuilt, n.path) =>
                IF IsDir(fsBuilt, n.dest)
                THEN /\ n.type = "Noop"
                     /\ Len(n.children) = Cardinality(ReadDir(fsBuilt, n.path))
                     /\ {<<n.children[i].path, n.children[i].dest>> : i \in 1..Len(n.children)}
                          = {<<Append(n.path, e), Append(n.dest, e)>> : e \in ReadDir(fsBuilt, n.path)}
                ELSE /\ n.type = "Link"
                     /\ Nodes(n) = {n}
                     /\ Links(n) = <<n>>

C7_Witness ==
    /\ HasPlan
    /\ \E n \in Nodes(plan) :
          /\ n.type = "Link"
          /\ IsDir(fsBuilt, n.path)
          /\ ReadDir(fsBuilt, n.path) # {}
          /\ Occupied(fsBuilt, n.dest)
    /\ plan.type = "Noop"
    /\ Len(plan.children) = 1

\* C9: is_empty is true exactly for the plans without a Link node; execute
\* then has no node to act on and show prints no line, and a plan that is
\* not empty gives both at least one.
C9_Emptiness ==
    HasPlan =>
        /\ IsEmpty(plan) <=> LinkNodes(plan) = {}
        /\ IsEmpty(plan) <=> Links(plan) = <<>>
        /\ IsEmpty(plan) <=> Show(fsBuilt, plan) = <<>>

C9_Witness ==
    /\ HasPlan
    /\ IsEmpty(plan)
    /\ Cardinality(Nodes(plan)) = 3

\* The ids of the entry at the name p and of everything under it.
IdsAt(f, p) == {f[q].id : q \in Under(f, LStat(f, p).path)}

Executed == pc = "done" /\ result = "executed"

\* The name p is a symbolic link whose target is the absolute path t.
IsLinkTo(f, p, t) ==
    LET l == ReadLink(f, p) IN l.ok /\ l.abs /\ l.comps = t

\* C4: without backup, once execute has returned Ok, the occupant a Link
\* node replaced (with everything under it) is nowhere in the filesystem,
\* under a backup name or any other, and the node's dest is a symbolic link
\* to the node's source path.  (Checked under SpecAlias.)
C4_ReplaceDeletes ==
    Executed /\ ~backup =>
        \A n \in LinkNodes(plan) :
            n.replace =>
                /\ \A q \in DOMAIN fs : fs[q].id \notin IdsAt(fsBuilt, n.dest)
                /\ IsLinkTo(fs, n.dest, n.path)

\* C8: the filesystem differs from what it was when the run started only
\* once Plan::new has returned a plan, the plan was found not empty and was
\* shown, and the prompt was accepted or force was set; a run that ends on
\* an input or build error, an empty plan or a rejected prompt ends with the
\* filesystem as it was.
C8_MutationOnlyAfterConfirm ==
    /\ fs # fsBuilt =>
          /\ HasPlan
          /\ ~IsEmpty(plan)
          /\ out # <<>>
          /\ out = Show(fsBuilt, plan)
          /\ force \/ answer = "yes"
          /\ pc = "execute" \/ (pc = "done" /\ result \in {"executed", "exec_error"})
    /\ pc \in {"built", "nonempty", "shown"} => fs = fsBuilt
    /\ pc = "done" /\ result \in {"input_error", "build_error", "empty", "rejected"}
          => fs = fsBuilt

C8_Witness ==
    /\ fs # fsBuilt
    /\ ~force
    /\ answer = "yes"
    /\ pc = "execute"

\* The next filesystem call of execute fails on the filesystem as it is.
StepFails ==
    /\ pc = "execute"
    /\ queue # <<>>
    /\ IF phase = "clear" /\ Head(queue).replace
       THEN ~ClearOccupant(fs, Head(queue)).ok
       ELSE ~MakeSymlink(fs, Head(queue).path, Head(queue).dest, runs).ok

CreatedLinks(f) == {q \in DOMAIN f : f[q].kind = "link" /\ f[q].id.run > 0}

IsSuffix(a, b) == Len(a) <= Len(b) /\ a = SubSeq(b, Len(b) - Len(a) + 1, Len(b))

\* C10: execute takes the Link nodes in depth-first order; on a node with
\* replace set its first call clears the occupant and creates no link; a
\* call that fails ends execute with an error, leaves the filesystem as the
\* calls before it made it, leaves the nodes not yet started untouched, and
\* nothing is done afterwards.
C10_ExecuteFailure ==
    [][/\ pc = "execute" => IsSuffix(queue, Links(plan))
       /\ StepFails => pc' = "done" /\ result' = "exec_error"
       /\ result' = "exec_error" /\ result # "exec_error" => fs' = fs /\ queue' = queue
       /\ result = "exec_error" => fs' = fs
       /\ pc = "execute" /\ queue # <<>> /\ Head(queue).replace /\ phase = "clear"
             => Cardinality(CreatedLinks(fs')) <= Cardinality(CreatedLinks(fs))
      ]_vars

C10_Witness ==
    /\ pc = "done"
    /\ result = "exec_error"
    /\ fs # fsBuilt
    /\ Len(queue) = 2
    /\ phase = "link"

\* The entry at the name p with everything under it, by relative path.
TreeAt(f, p) ==
    LET r == LStat(f, p)
    IN  IF ~r.ok THEN <<>>
        ELSE [x \in {Rest(r.path, q) : q \in Under(f, r.path)} |-> f[r.path \o x]]

\* C2: with backup, once execute has returned Ok, what occupied the dest of
\* a Link node with replace set when the plan was built is found unchanged
\* under dest's backup name, for every such node of the plan.
C2_BackupKeepsOccupant ==
    Executed /\ backup =>
        \A n \in LinkNodes(plan) :
            n.replace =>
                /\ Occupied(fs, WithExtension(n.dest))
                /\ TreeAt(fs, WithExtension(n.dest)) = TreeAt(fsBuilt, n.dest)

\* The entries of the source tree the run was given, by relative path.
SourceEntries(f) ==
    LET root == CanonicalizeDir(f, input).path
    IN  {Rest(root, q) : q \in Under(f, root) \ {root}}

\* C3: once execute has returned Ok, every entry the source tree had when
\* the plan was built is reached at the same relative path under the
\* destination: a directory as a directory, a file as that source file,
\* unchanged, behind a symbolic link.
C3_Mirror ==
    Executed =>
        \A r \in SourceEntries(fsBuilt) :
            LET at == CanonicalizeDir(fsBuilt, input).path \o r
                seen == Stat(fs, DstRoot \o r)
            IN  IF fsBuilt[at].kind = "dir"
                THEN IsDir(fs, DstRoot \o r)
                ELSE /\ seen.ok
                     /\ seen.path = at
                     /\ fs[at] = fsBuilt[at]

\* C1: once execute has returned Ok, Plan::new on the same source and
\* destination, with either backup setting and any listing order, returns a
\* plan of Noop nodes only.
C1_Idempotent ==
    Executed =>
        \A bk \in BOOLEAN, ord \in Orders(fs) :
            LET again == PlanNew(fs, {}, ord, input, DstRoot, bk)
            IN  again.type = "Noop" /\ IsEmpty(again)

\* The entries located inside the source tree, by physical path.
SourceTree(f) == [q \in Under(f, SrcRoot) |-> f[q]]

\* C11: no step of a run renames, removes, replaces or creates an entry
\* located inside the source tree: every rename, removal and symlink
\* creation of execute lands in the destination tree, also when the
\* destination holds a symbolic link into the source tree left by an
\* earlier run.
C11_SourceUntouched ==
    [][SourceTree(fs') = SourceTree(fs)]_vars

====
